---- MODULE Spec2Model ----
(***************************************************************************)
(* AI Legal Assistant (app.py): the legal-topic gate, the chat history     *)
(* store, the chat handler with its answer generator, the reminder e-mail  *)
(* flow, the PDF text extractor, the users table with the login and the    *)
(* reminder form, and the IPC sections search tool                         *)
(* (tools/ipc_sections_search_tool.py), as state machines.                 *)
(*                                                                         *)
(* Texts are TLA+ strings; TLC evaluates Len, \o and SubSeq on them, so    *)
(* the string functions of the program (strip, lower, in, startswith) are  *)
(* computed character by character.                                        *)
(***************************************************************************)
EXTENDS Integers, Sequences, FiniteSets, TLC

VARIABLES
    question,        \* is_legal_question: the argument of the call
    result,          \* is_legal_question: [called, value] of the call
    history,         \* users.db, table history: the rows in insertion order
    now,             \* the clock behind CURRENT_TIMESTAMP, in seconds
    loaded,          \* load_messages_by_conversation_id: the last call
    users,           \* users.db, table users: the rows in insertion order
    logged_in,       \* st.session_state["logged_in"]
    role,            \* st.session_state["role"]
    username,        \* st.session_state["username"]
    user_email,      \* st.session_state["user_email"]
    messages,        \* st.session_state["messages"]
    current_conversation_id,  \* st.session_state["current_conversation_id"]
    uuid_count,      \* how many uuid.uuid4() values have been drawn
    groq_client,     \* whether GROQ_API_KEY configured a client
    last_chat,       \* the last run of a chat handler: what it did
    sender_email,    \* os.getenv("SENDER_EMAIL")
    sender_password, \* os.getenv("SENDER_PASSWORD")
    smtp_port_env,   \* os.getenv("SMTP_PORT")
    sent_emails,     \* sent_emails.txt: the entries appended, in order
    mail,            \* send_reminder_emails: the last call
    ocr_api_key,     \* os.getenv("OCR_SPACE_API_KEY")
    extracted,       \* extract_text_from_pdf: the last call
    show_reminder_form,  \* st.session_state["show_reminder_form"]
    notice,          \* the message the Register button displayed last
    reminders,       \* users.db, table reminders: the rows in insertion order
    reminder_run,    \* the last submission of the reminder form: what it did
    vector_db,       \* tools/ipc_sections_search_tool.py: the module's store
    search           \* search_ipc_sections: the last call

classVars == << question, result >>
dbVars == << history, now, loaded >>
sessionVars == << logged_in, role, username, user_email, messages,
                  current_conversation_id >>
appVars == << users, logged_in, role, username, user_email, messages,
              current_conversation_id, uuid_count, groq_client, last_chat >>
mailVars == << sender_email, sender_password, smtp_port_env, sent_emails, mail >>
pdfVars == << ocr_api_key, extracted >>
officeVars == << show_reminder_form, notice, reminders, reminder_run >>
searchVars == << vector_db, search >>
vars == << question, result, history, now, loaded, users, logged_in, role,
           username, user_email, messages, current_conversation_id, uuid_count,
           groq_client, last_chat, sender_email, sender_password, smtp_port_env,
           sent_emails, mail, ocr_api_key, extracted, show_reminder_form,
           notice, reminders, reminder_run, vector_db, search >>

\* Python's None; no text of the model equals it.
None == "<None>"

-----------------------------------------------------------------------------
(* Python string primitives.                                               *)

\* Characters str.strip() removes (ASCII whitespace).
Whitespace == { " ", "\t", "\n", "\r", "\f" }

UpperCase == << "A", "B", "C", "D", "E", "F", "G", "H", "I", "J", "K", "L", "M",
                "N", "O", "P", "Q", "R", "S", "T", "U", "V", "W", "X", "Y", "Z" >>
LowerCase == << "a", "b", "c", "d", "e", "f", "g", "h", "i", "j", "k", "l", "m",
                "n", "o", "p", "q", "r", "s", "t", "u", "v", "w", "x", "y", "z" >>

CharAt(s, i) == SubSeq(s, i, i)

\* str.lower() of one character.
LowerChar(c) ==
    IF \E i \in 1..26 : UpperCase[i] = c
    THEN LowerCase[CHOOSE i \in 1..26 : UpperCase[i] = c]
    ELSE c

RECURSIVE LowerFrom(_, _)
LowerFrom(s, i) ==
    IF i > Len(s) THEN "" ELSE LowerChar(CharAt(s, i)) \o LowerFrom(s, i + 1)

\* s.lower()
lower(s) == LowerFrom(s, 1)

\* Index of the first / last non-whitespace character (Len+1 / 0 if none).
FirstNonWs(s) ==
    IF \E i \in 1..Len(s) : CharAt(s, i) \notin Whitespace
    THEN CHOOSE i \in 1..Len(s) :
            /\ CharAt(s, i) \notin Whitespace
            /\ \A j \in 1..(i - 1) : CharAt(s, j) \in Whitespace
    ELSE Len(s) + 1

LastNonWs(s) ==
    IF \E i \in 1..Len(s) : CharAt(s, i) \notin Whitespace
    THEN CHOOSE i \in 1..Len(s) :
            /\ CharAt(s, i) \notin Whitespace
            /\ \A j \in (i + 1)..Len(s) : CharAt(s, j) \in Whitespace
    ELSE 0

\* s.strip()
strip(s) == SubSeq(s, FirstNonWs(s), LastNonWs(s))

\* s.rstrip()
rstrip(s) == SubSeq(s, 1, LastNonWs(s))

\* sub in s (substring at any position).
Contains(s, sub) ==
    \E i \in 1..(Len(s) - Len(sub) + 1) : SubSeq(s, i, i + Len(sub) - 1) = sub

\* s.startswith(prefix)
startswith(s, prefix) ==
    Len(prefix) <= Len(s) /\ SubSeq(s, 1, Len(prefix)) = prefix

-----------------------------------------------------------------------------
(* is_legal_question: the fixed lists.                                     *)

\* Line 44: the least length of the stripped question.
MinQuestionLen == 3

\* Lines 50-99.
legal_keywords ==
    << "law", "legal", "court", "judge", "lawyer", "attorney", "advocate",
       "case", "lawsuit", "litigation", "trial", "hearing", "verdict",
       "contract", "agreement", "breach", "terms", "clause", "violation",
       "binding", "negotiation", "dispute", "settlement", "criminal", "crime",
       "arrest", "police", "bail", "prison", "jail", "theft", "fraud",
       "assault", "murder", "robbery", "evidence", "investigation", "charges",
       "guilty", "innocent", "conviction", "civil", "plaintiff", "defendant",
       "damages", "compensation", "negligence", "liability", "tort", "injury",
       "accident", "property", "real estate", "land", "ownership", "title",
       "deed", "mortgage", "lease", "rent", "tenant", "landlord", "eviction",
       "divorce", "marriage", "custody", "alimony", "adoption", "inheritance",
       "will", "estate", "guardian", "family court", "corporation", "company",
       "business", "partnership", "tax", "intellectual property", "patent",
       "trademark", "copyright", "employment", "workplace", "discrimination",
       "harassment", "summon", "notice", "petition", "motion", "appeal",
       "jurisdiction", "statute", "regulation", "ordinance", "constitution",
       "rights", "obligation", "duty", "penalty", "fine", "sentence", "ipc",
       "crpc", "cpc", "indian penal code", "high court", "supreme court",
       "sessions court", "magistrate", "fir", "chargesheet", "bail",
       "anticipatory bail", "interim order", "stay order", "injunction",
       "legal advice", "legal help", "legal issue", "legal problem",
       "legal matter", "legal question", "legal rights", "legal action",
       "legal proceeding", "legal document", "legal compliance", "can i sue",
       "is it legal", "what are my rights", "legal procedure",
       "court process", "how to file", "legal requirement", "violation of" >>

\* Lines 102-106.
legal_patterns ==
    << "what is the law", "according to law", "legally speaking",
       "court order", "legal document", "file a case", "legal action",
       "my rights", "legal procedure", "court hearing", "legal advice" >>

\* Lines 119-123.
legal_question_starts ==
    << "can i legally", "is it illegal", "what does the law say",
       "according to indian law", "under which section", "legal validity",
       "court procedure", "how to file", "legal notice", "summon received" >>

-----------------------------------------------------------------------------
(* is_legal_question                                                       *)

\* Lines 108-111: for keyword in legal_keywords: if keyword in question_lower.
HasKeyword(question_lower) ==
    \E i \in 1..Len(legal_keywords) : Contains(question_lower, legal_keywords[i])

\* Lines 113-116: for pattern in legal_patterns: if pattern in question_lower.
HasPattern(question_lower) ==
    \E i \in 1..Len(legal_patterns) : Contains(question_lower, legal_patterns[i])

\* Lines 125-127: for start in legal_question_starts: question_lower.startswith.
HasStart(question_lower) ==
    \E i \in 1..Len(legal_question_starts) :
        startswith(question_lower, legal_question_starts[i])

\* is_legal_question with the final "return False" written as "return True".
is_legal_question_default_true(q) ==
    IF q = "" \/ Len(strip(q)) < MinQuestionLen
    THEN FALSE
    ELSE TRUE

\* is_legal_question with question.strip() in place of question.lower().strip().
is_legal_question_no_lower(q) ==
    IF q = "" \/ Len(strip(q)) < MinQuestionLen
    THEN FALSE
    ELSE \/ HasKeyword(strip(q))
         \/ HasPattern(strip(q))
         \/ HasStart(strip(q))

\* is_legal_question with .rstrip() in place of .strip(): leading whitespace kept.
is_legal_question_rstrip(q) ==
    IF q = "" \/ Len(strip(q)) < MinQuestionLen
    THEN FALSE
    ELSE \/ HasKeyword(rstrip(lower(q)))
         \/ HasPattern(rstrip(lower(q)))
         \/ HasStart(rstrip(lower(q)))

\* is_legal_question with "start in question_lower" in place of startswith.
is_legal_question_start_anywhere(q) ==
    IF q = "" \/ Len(strip(q)) < MinQuestionLen
    THEN FALSE
    ELSE \/ HasKeyword(strip(lower(q)))
         \/ HasPattern(strip(lower(q)))
         \/ \E i \in 1..Len(legal_question_starts) :
                Contains(strip(lower(q)), legal_question_starts[i])

is_legal_question(q) ==
    IF q = "" \/ Len(strip(q)) < MinQuestionLen
    THEN FALSE
    ELSE \/ HasKeyword(strip(lower(q)))
         \/ HasPattern(strip(lower(q)))
         \/ HasStart(strip(lower(q)))

\* The classifier part at rest, for the specifications that do not use it.
IdleClassifier ==
    /\ question = ""
    /\ result = [called |-> FALSE, value |-> FALSE]

-----------------------------------------------------------------------------
(* The history table of users.db.                                          *)

\* init_db: the history table is created empty.
EmptyHistory == << >>

NotLoaded == [called |-> FALSE, conversation_id |-> None, at |-> 0, messages |-> << >>]

\* The database part at rest, for the specifications that do not use it.
IdleDb ==
    /\ history = EmptyHistory
    /\ now = 0
    /\ loaded = NotLoaded

\* is_user_message BOOLEAN as SQLite stores a Python bool.
SqlBool(b) == IF b THEN 1 ELSE 0

\* save_chat_message: one INSERT; id is AUTOINCREMENT, timestamp defaults to
\* CURRENT_TIMESTAMP (whole seconds), message is str(message).
save_chat_message(h, t, uname, r, conversation_id, is_user_message, message) ==
    Append(h, [ id |-> Len(h) + 1,
                username |-> uname,
                role |-> r,
                conversation_id |-> conversation_id,
                timestamp |-> t,
                is_user_message |-> SqlBool(is_user_message),
                message |-> message ])

\* WHERE conversation_id=?: the ids of the matching rows.
RowsOf(h, conversation_id) ==
    { i \in 1..Len(h) : h[i].conversation_id = conversation_id }

\* ORDER BY timestamp ASC: every arrangement of the matching rows in which
\* timestamps do not decrease.  SQL leaves the order of rows with equal
\* ORDER BY keys undefined, and the statement names no second key.
RECURSIVE OrderedByTimestamp(_, _)
OrderedByTimestamp(h, ids) ==
    IF ids = { }
    THEN { << >> }
    ELSE UNION { { << i >> \o rest : rest \in OrderedByTimestamp(h, ids \ { i }) } :
                 i \in { k \in ids :
                            \A j \in ids : h[k].timestamp <= h[j].timestamp } }

\* The list comprehension of line 247 over the fetched rows.
AsMessages(h, o) ==
    [ i \in 1..Len(o) |->
        [ role |-> IF h[o[i]].is_user_message # 0 THEN "user" ELSE "assistant",
          content |-> h[o[i]].message ] ]

\* load_messages_by_conversation_id: the lists the call may return.
load_messages_by_conversation_id(h, conversation_id) ==
    { AsMessages(h, o) : o \in OrderedByTimestamp(h, RowsOf(h, conversation_id)) }

-----------------------------------------------------------------------------
(* The session, the users table and the answer generator.                  *)

\* Python truthiness of a text or None.
Falsy(v) == v = None \/ v = ""

NoChat == [ seq |-> 0, question |-> "", context |-> "", accepted |-> FALSE,
            calls |-> << >>, answer |-> None, reply |-> "" ]

\* Lines 442-450: the session state of a fresh session.
InitSession ==
    /\ logged_in = FALSE
    /\ role = None
    /\ username = None
    /\ user_email = None
    /\ messages = << >>
    /\ current_conversation_id = None

\* The application part at rest, for the specifications that do not use it.
IdleApp ==
    /\ InitSession
    /\ users = << >>
    /\ uuid_count = 0
    /\ groq_client = FALSE
    /\ last_chat = NoChat

\* str(uuid.uuid4()): the n-th value drawn; each differs from the others.
UuidNames == << "uuid-1", "uuid-2", "uuid-3", "uuid-4", "uuid-5", "uuid-6" >>
Uuid(n) == UuidNames[n]

\* make_hash: sha256 hex digest, taken as injective.
make_hash(password) == "sha256:" \o password

\* register_user with INSERT OR REPLACE: the row of a username already stored
\* gives way to the new one.
register_user_replace(us, uname, password, r, email) ==
    Append(SelectSeq(us, LAMBDA row : row.username # uname),
           [ username |-> uname, password |-> make_hash(password),
             role |-> r, email |-> email ])

\* register_user: the INSERT fails on a username already stored (UNIQUE) and
\* the IntegrityError is caught.
register_user(us, uname, password, r, email) ==
    IF \E i \in 1..Len(us) : us[i].username = uname
    THEN us
    ELSE Append(us, [ username |-> uname, password |-> make_hash(password),
                      role |-> r, email |-> email ])

\* Lines 190 and 192: the messages register_user displays (pictographs left out).
RegistrationSuccessful == "Registration successful! Please login."
UsernameExists == "Username already exists"

\* register_user: st.success after the commit, st.error for the IntegrityError.
register_user_message(us, uname) ==
    IF \E i \in 1..Len(us) : us[i].username = uname
    THEN UsernameExists
    ELSE RegistrationSuccessful

\* login_user: fetchone() of the rows with this username and password hash,
\* as << role, email >>, or << >> when there is none.
login_user(us, uname, password) ==
    IF \E i \in 1..Len(us) :
            us[i].username = uname /\ us[i].password = make_hash(password)
    THEN LET i == CHOOSE k \in 1..Len(us) :
                    us[k].username = uname /\ us[k].password = make_hash(password)
         IN  << us[i].role, us[i].email >>
    ELSE << >>

\* Line 490 without the comparison of the stored role with the session's.
login_accepted_any_role(res, selected_role) == res # << >>

\* Line 490: "result and result[0] == st.session_state['role']".
login_accepted(res, selected_role) == res # << >> /\ res[1] = selected_role

\* load_conversation_titles: the conversation ids listed for a user, those
\* holding a user message of that user.
load_conversation_titles(h, uname) ==
    { h[i].conversation_id : i \in { k \in 1..Len(h) :
            h[k].username = uname /\ h[k].is_user_message = 1 } }

\* get_non_legal_response(): the fixed refusal (its first line).
get_non_legal_response == "**Please ask a legal question.**"

\* Lines 584 and 655.
FallbackAnswer == "Sorry, I couldn't process this legal question right now."

\* Line 422: the model identifiers in their order.
GroqModels == << "llama-3.1-70b-specdec", "llama-3.1-8b-instant" >>

\* ask_groq from the i-th model on; outcomes[i] is what the call with the
\* i-th model does: raise, or return a content.  The calls made are recorded.
RECURSIVE AskFrom(_, _, _)
AskFrom(outcomes, i, calls) ==
    IF i > Len(GroqModels)
    THEN [ calls |-> calls, value |-> None ]
    ELSE LET call == [ model |-> GroqModels[i], raised |-> outcomes[i].raises,
                       content |-> outcomes[i].content ]
         IN  IF outcomes[i].raises
             THEN AskFrom(outcomes, i + 1, Append(calls, call))
             ELSE [ calls |-> Append(calls, call), value |-> outcomes[i].content ]

\* ask_groq with "break" in place of "continue".
ask_groq_break(client, outcomes) ==
    IF ~client
    THEN [ calls |-> << >>, value |-> None ]
    ELSE [ calls |-> << [ model |-> GroqModels[1], raised |-> outcomes[1].raises,
                         content |-> outcomes[1].content ] >>,
           value |-> IF outcomes[1].raises THEN None ELSE outcomes[1].content ]

\* ask_groq
ask_groq(client, outcomes) ==
    IF ~client
    THEN [ calls |-> << >>, value |-> None ]
    ELSE AskFrom(outcomes, 1, << >>)

\* The questions typed into the chat input.
Questions == { "Is BAIL possible?", "pasta recipe" }

\* is_legal_question(user_input) for each of these questions.
Verdicts == [ q \in Questions |-> is_legal_question(q) ]

\* Lines 580-587 with ask_groq called before the validation check.
chat_answer_ask_first(client, user_input, outcomes) ==
    LET asked == ask_groq(client, outcomes)
    IN  IF Verdicts[user_input]
        THEN [ accepted |-> TRUE, calls |-> asked.calls, answer |-> asked.value,
               reply |-> IF Falsy(asked.value) THEN FallbackAnswer ELSE asked.value ]
        ELSE [ accepted |-> FALSE, calls |-> asked.calls, answer |-> None,
               reply |-> get_non_legal_response ]

\* Lines 580-587 and 651-658: the answer of a chat handler.
chat_answer(client, user_input, outcomes) ==
    IF Verdicts[user_input]
    THEN LET asked == ask_groq(client, outcomes)
         IN  [ accepted |-> TRUE, calls |-> asked.calls, answer |-> asked.value,
               reply |-> IF Falsy(asked.value) THEN FallbackAnswer ELSE asked.value ]
    ELSE [ accepted |-> FALSE, calls |-> << >>, answer |-> None,
           reply |-> get_non_legal_response ]

-----------------------------------------------------------------------------
(* The reminder e-mails.                                                   *)

NoMail == [ calls |-> 0, value |-> FALSE, log_before |-> 0, case_number |-> "",
            client_email |-> "", lawyer_email |-> "", sends |-> << >> ]

\* The e-mail part at rest, for the specifications that do not use it.
IdleMail ==
    /\ sender_email = None
    /\ sender_password = None
    /\ smtp_port_env = None
    /\ sent_emails = << >>
    /\ mail = NoMail

\* A calendar date, as datetime.date holds it.
Date(y, m, d) == [ year |-> y, month |-> m, day |-> d ]

MonthNames == << "January", "February", "March", "April", "May", "June", "July",
                 "August", "September", "October", "November", "December" >>

\* One decimal digit as text.
Digit(n) == SubSeq("0123456789", n + 1, n + 1)

\* A natural number in decimal.
RECURSIVE Decimal(_)
Decimal(n) == IF n < 10 THEN Digit(n) ELSE Decimal(n \div 10) \o Digit(n % 10)

\* deadline_date.strftime("%B %d, %Y")
strftime_long(date) ==
    MonthNames[date.month] \o " " \o Digit(date.day \div 10) \o Digit(date.day % 10)
        \o ", " \o Decimal(date.year)

\* The steps of one SMTP submission, lines 308-312.
SmtpSteps == << "SMTP", "starttls", "login", "sendmail", "quit" >>

\* save_email_details: the entry appended to sent_emails.txt.
save_email_details(to_email, subject, body) ==
    [ to |-> to_email, subject |-> subject, body |-> body ]

\* The value of a decimal digit.
DigitValue(c) == CHOOSE n \in 0..9 : Digit(n) = c

\* int(text) of a text of decimal digits.
RECURSIVE ParseInt(_)
ParseInt(text) ==
    IF Len(text) = 1 THEN DigitValue(text)
    ELSE 10 * ParseInt(SubSeq(text, 1, Len(text) - 1)) + DigitValue(CharAt(text, Len(text)))

\* Line 290: the default port.
DefaultSmtpPort == 587

\* Line 290: int(os.getenv("SMTP_PORT", 587)).
smtp_port(port_env) == IF port_env = None THEN DefaultSmtpPort ELSE ParseInt(port_env)

\* The environment send_email reads, lines 287-290.
MailEnv ==
    [ sender_email |-> sender_email, sender_password |-> sender_password,
      smtp_port |-> smtp_port_env ]

\* send_email whose except branch returns False.
send_email_strict(env, to_email, subject, body, raise_at) ==
    IF Falsy(env.sender_email) \/ Falsy(env.sender_password)
    THEN [ ok |-> TRUE, raised_at |-> 0, smtp |-> << >>, port |-> smtp_port(env.smtp_port),
           logged |-> << save_email_details(to_email, subject, body) >> ]
    ELSE IF raise_at = 0
         THEN [ ok |-> TRUE, raised_at |-> 0, smtp |-> SmtpSteps,
                port |-> smtp_port(env.smtp_port),
                logged |-> << save_email_details(to_email, subject, body) >> ]
         ELSE [ ok |-> FALSE, raised_at |-> raise_at,
                smtp |-> SubSeq(SmtpSteps, 1, raise_at),
                port |-> smtp_port(env.smtp_port),
                logged |-> << save_email_details(to_email, subject, body) >> ]

\* send_email: raise_at is the SMTP step that raises (0: none).  The result
\* holds the return value, the port parsed, the SMTP steps entered and the
\* entries logged.
send_email(env, to_email, subject, body, raise_at) ==
    IF Falsy(env.sender_email) \/ Falsy(env.sender_password)
    THEN [ ok |-> TRUE, raised_at |-> 0, smtp |-> << >>, port |-> smtp_port(env.smtp_port),
           logged |-> << save_email_details(to_email, subject, body) >> ]
    ELSE IF raise_at = 0
         THEN [ ok |-> TRUE, raised_at |-> 0, smtp |-> SmtpSteps,
                port |-> smtp_port(env.smtp_port),
                logged |-> << save_email_details(to_email, subject, body) >> ]
         ELSE [ ok |-> TRUE, raised_at |-> raise_at,
                smtp |-> SubSeq(SmtpSteps, 1, raise_at),
                port |-> smtp_port(env.smtp_port),
                logged |-> << save_email_details(to_email, subject, body) >> ]

\* Lines 341 and 357: the optional line of the two bodies.
AdditionalMessage(reminder_message) ==
    IF reminder_message # "" THEN "Additional Message: " \o reminder_message ELSE ""

\* Lines 333-347 (pictographs left out).
client_subject(case_number) == "Case " \o case_number \o " - Deadline Reminder"

client_body(case_number, deadline_str, reminder_message) ==
    "Dear Client,\n\nThis is a reminder regarding your case:\n\n"
        \o "Case Number: " \o case_number \o "\n"
        \o "Deadline: " \o deadline_str \o "\n\n"
        \o AdditionalMessage(reminder_message) \o "\n\n"
        \o "Please ensure all required documents and actions are completed before the deadline.\n\n"
        \o "Best regards,\nLegal Assistant System\n"

\* Lines 348-363 (pictographs left out).
lawyer_subject(case_number) == "Case " \o case_number \o " - Deadline Reminder"

lawyer_body(case_number, deadline_str, cl_email, reminder_message) ==
    "Dear Lawyer,\n\nThis is a reminder regarding case:\n\n"
        \o "Case Number: " \o case_number \o "\n"
        \o "Deadline: " \o deadline_str \o "\n"
        \o "Client: " \o cl_email \o "\n\n"
        \o AdditionalMessage(reminder_message) \o "\n\n"
        \o "Please ensure all case preparations are completed before the deadline.\n\n"
        \o "Best regards,\nLegal Assistant System\n"

\* What send_reminder_emails returns and does, from its two sends in order.
ReminderOutcome(first, second) ==
    [ value |-> first.sent.ok /\ second.sent.ok,
      logged |-> first.sent.logged \o second.sent.logged,
      sends |-> << [ to |-> first.to, ok |-> first.sent.ok,
                     raised_at |-> first.sent.raised_at, smtp |-> first.sent.smtp,
                     port |-> first.sent.port,
                     logged |-> Len(first.sent.logged) ],
                   [ to |-> second.to, ok |-> second.sent.ok,
                     raised_at |-> second.sent.raised_at, smtp |-> second.sent.smtp,
                     port |-> second.sent.port,
                     logged |-> Len(second.sent.logged) ] >> ]

\* send_reminder_emails with the lawyer's message sent before the client's.
send_reminder_emails_lawyer_first(env, case_number, cl_email, lw_email, deadline_date, reminder_message, raise1, raise2) ==
    LET deadline_str == strftime_long(deadline_date)
        client_sent == send_email(env, cl_email,
                            client_subject(case_number),
                            client_body(case_number, deadline_str, reminder_message),
                            raise1)
        lawyer_sent == send_email(env, lw_email,
                            lawyer_subject(case_number),
                            lawyer_body(case_number, deadline_str, cl_email,
                                        reminder_message),
                            raise2)
    IN  ReminderOutcome([ to |-> lw_email, sent |-> lawyer_sent ],
                        [ to |-> cl_email, sent |-> client_sent ])

\* send_reminder_emails: raise1 and raise2 are the SMTP steps that raise in
\* the client's and in the lawyer's submission (0: none).
send_reminder_emails(env, case_number, cl_email, lw_email, deadline_date, reminder_message, raise1, raise2) ==
    LET deadline_str == strftime_long(deadline_date)
        client_sent == send_email(env, cl_email,
                            client_subject(case_number),
                            client_body(case_number, deadline_str, reminder_message),
                            raise1)
        lawyer_sent == send_email(env, lw_email,
                            lawyer_subject(case_number),
                            lawyer_body(case_number, deadline_str, cl_email,
                                        reminder_message),
                            raise2)
    IN  ReminderOutcome([ to |-> cl_email, sent |-> client_sent ],
                        [ to |-> lw_email, sent |-> lawyer_sent ])

-----------------------------------------------------------------------------
(* The PDF text extractor.                                                 *)

NoExtract == [ calls |-> 0, pages |-> << >>, failure |-> 0, text |-> "",
               ocr_calls |-> 0, error |-> FALSE ]

\* The extractor part at rest, for the specifications that do not use it.
IdlePdf ==
    /\ ocr_api_key = None
    /\ extracted = NoExtract

\* Lines 407-410: the text accumulated over pages[i..n]; page.extract_text()
\* gives a text or None, and a page without text adds nothing.
RECURSIVE PagesText(_, _, _)
PagesText(pages, i, n) ==
    IF i > n THEN ""
    ELSE (IF Falsy(pages[i]) THEN "" ELSE pages[i] \o "\n") \o PagesText(pages, i + 1, n)

\* ocr_pdf_with_ocr_space: the ParsedText fragments, each followed by "\n".
RECURSIVE OcrText(_, _)
OcrText(parsed, i) ==
    IF i > Len(parsed) THEN "" ELSE parsed[i] \o "\n" \o OcrText(parsed, i + 1)

\* extract_text_from_pdf with "or" in the condition of line 412.
extract_text_from_pdf_or(key, pages, failure, ocr) ==
    IF failure = -1
    THEN [ text |-> "", ocr_calls |-> 0, error |-> TRUE ]
    ELSE IF failure > 0
    THEN [ text |-> PagesText(pages, 1, failure - 1), ocr_calls |-> 0, error |-> TRUE ]
    ELSE LET text == PagesText(pages, 1, Len(pages))
         IN  IF strip(text) = "" \/ ~Falsy(key)
             THEN IF ocr.raises
                  THEN [ text |-> text, ocr_calls |-> 1, error |-> TRUE ]
                  ELSE [ text |-> OcrText(ocr.parsed, 1), ocr_calls |-> 1,
                         error |-> FALSE ]
             ELSE [ text |-> text, ocr_calls |-> 0, error |-> FALSE ]

\* extract_text_from_pdf.  failure = -1: pdfplumber.open raises; failure = k > 0:
\* extract_text of page k raises; 0: neither.  ocr is what the OCR request
\* does if made.  error: the except branch ran (st.error shown).
extract_text_from_pdf(key, pages, failure, ocr) ==
    IF failure = -1
    THEN [ text |-> "", ocr_calls |-> 0, error |-> TRUE ]
    ELSE IF failure > 0
    THEN [ text |-> PagesText(pages, 1, failure - 1), ocr_calls |-> 0, error |-> TRUE ]
    ELSE LET text == PagesText(pages, 1, Len(pages))
         IN  IF strip(text) = "" /\ ~Falsy(key)
             THEN IF ocr.raises
                  THEN [ text |-> text, ocr_calls |-> 1, error |-> TRUE ]
                  ELSE [ text |-> OcrText(ocr.parsed, 1), ocr_calls |-> 1,
                         error |-> FALSE ]
             ELSE [ text |-> text, ocr_calls |-> 0, error |-> FALSE ]

-----------------------------------------------------------------------------
(* The reminders table and the reminder form.                              *)

\* init_db: the reminders table is created empty.
EmptyReminders == << >>

NoReminderRun == [ seq |-> 0, case_number |-> "", client_email |-> "",
                   lawyer_email |-> "", db_error |-> FALSE, outcome |-> "",
                   events |-> << >> ]

\* The reminder part at rest, for the specifications that do not use it.
IdleOffice ==
    /\ show_reminder_form = FALSE
    /\ notice = ""
    /\ reminders = EmptyReminders
    /\ reminder_run = NoReminderRun

\* deadline_date.strftime("%Y-%m-%d"), for a year of four digits.
strftime_iso(date) ==
    Decimal(date.year) \o "-" \o Digit(date.month \div 10) \o Digit(date.month % 10)
        \o "-" \o Digit(date.day \div 10) \o Digit(date.day % 10)

\* save_case_reminder: one INSERT at time t; id is AUTOINCREMENT.  db_error:
\* the database raises, which is caught and answered with False.
save_case_reminder(rs, t, case_number, cl_email, lw_email, deadline_date, message, db_error) ==
    IF db_error
    THEN [ ok |-> FALSE, reminders |-> rs ]
    ELSE [ ok |-> TRUE,
           reminders |-> Append(rs, [ id |-> Len(rs) + 1,
                                      case_number |-> case_number,
                                      client_email |-> cl_email,
                                      lawyer_email |-> lw_email,
                                      deadline_date |-> strftime_iso(deadline_date),
                                      message |-> message,
                                      created_at |-> t ]) ]

\* The events of a call of send_reminder_emails: one per send_email call.
SendEvents(r) == [ i \in 1..Len(r.sends) |-> "send" ]

\* Lines 610-623 with the notification sent whether or not the reminder was
\* saved.
reminder_form_submit_send_anyway(rs, t, env, case_number, cl_email, lw_email, deadline_date, message, db_error, raise1, raise2) ==
    IF Falsy(case_number) \/ Falsy(cl_email) \/ Falsy(lw_email)
    THEN [ outcome |-> "warning", reminders |-> rs, logged |-> << >>,
           events |-> << >>, close |-> FALSE ]
    ELSE LET saved == save_case_reminder(rs, t, case_number, cl_email, lw_email,
                                         deadline_date, message, db_error)
             r == send_reminder_emails(env, case_number, cl_email, lw_email,
                                       deadline_date, message, raise1, raise2)
         IN  [ outcome |-> IF ~saved.ok THEN "save failed"
                           ELSE IF r.value THEN "saved and sent" ELSE "send failed",
               reminders |-> saved.reminders, logged |-> r.logged,
               events |-> << IF saved.ok THEN "insert" ELSE "insert failed" >>
                          \o SendEvents(r),
               close |-> saved.ok /\ r.value ]

\* Lines 610-623: the submit button of the reminder form.  The date input
\* always holds a date, which is truthy.  outcome: the message shown;
\* events: the insert and the send_email calls in their order; logged: the
\* entries added to sent_emails.txt; close: the form is closed.
reminder_form_submit(rs, t, env, case_number, cl_email, lw_email, deadline_date, message, db_error, raise1, raise2) ==
    IF Falsy(case_number) \/ Falsy(cl_email) \/ Falsy(lw_email)
    THEN [ outcome |-> "warning", reminders |-> rs, logged |-> << >>,
           events |-> << >>, close |-> FALSE ]
    ELSE LET saved == save_case_reminder(rs, t, case_number, cl_email, lw_email,
                                         deadline_date, message, db_error)
         IN  IF ~saved.ok
             THEN [ outcome |-> "save failed", reminders |-> rs, logged |-> << >>,
                    events |-> << "insert failed" >>, close |-> FALSE ]
             ELSE LET r == send_reminder_emails(env, case_number, cl_email,
                                                lw_email, deadline_date, message,
                                                raise1, raise2)
                  IN  [ outcome |-> IF r.value THEN "saved and sent" ELSE "send failed",
                        reminders |-> saved.reminders, logged |-> r.logged,
                        events |-> << "insert" >> \o SendEvents(r),
                        close |-> r.value ]

-----------------------------------------------------------------------------
(* The IPC sections search tool (tools/ipc_sections_search_tool.py).       *)

\* Lines 32-41: the store when Chroma(...) raised at import.
VectorDbFailed == [ loaded |-> FALSE, count |-> 0 ]

\* Lines 32-36: a loaded store, holding count documents.
VectorDb(count) == [ loaded |-> TRUE, count |-> count ]

\* "not vector_db" (line 59): None is false; a Chroma object has __len__, the
\* number of documents of its collection, so an empty store is false too.
VectorDbTruthy(db) == db.loaded /\ db.count > 0

NoSearch == [ calls |-> 0, query |-> "", top_k |-> 0, searched |-> FALSE,
              failed |-> FALSE, docs |-> << >>, raised |-> FALSE, value |-> << >> ]

\* The search part at rest, for the specifications that do not use it.
IdleSearch ==
    /\ vector_db = VectorDbFailed
    /\ search = NoSearch

\* doc.metadata.get(key): the value, or None when the key is absent.
MetadataGet(metadata, key) ==
    IF key \in DOMAIN metadata THEN metadata[key] ELSE None

\* Lines 70-76: the record built for one document.
SectionRecord(doc) ==
    [ section |-> MetadataGet(doc.metadata, "section"),
      section_title |-> MetadataGet(doc.metadata, "section_title"),
      chapter |-> MetadataGet(doc.metadata, "chapter"),
      chapter_title |-> MetadataGet(doc.metadata, "chapter_title"),
      content |-> doc.page_content ]

\* search_ipc_sections with "if not query" in place of line 63: a query of
\* whitespace is searched.
search_ipc_sections_no_strip(db, query, top_k, outcome) ==
    IF ~VectorDbTruthy(db)
    THEN [ searched |-> FALSE, failed |-> FALSE, docs |-> << >>,
           raised |-> FALSE, value |-> << >> ]
    ELSE IF query = ""
    THEN [ searched |-> FALSE, failed |-> FALSE, docs |-> << >>,
           raised |-> FALSE, value |-> << >> ]
    ELSE IF outcome.raises
    THEN [ searched |-> TRUE, failed |-> TRUE, docs |-> << >>,
           raised |-> FALSE, value |-> << >> ]
    ELSE [ searched |-> TRUE, failed |-> FALSE, docs |-> outcome.docs,
           raised |-> FALSE,
           value |-> [ i \in 1..Len(outcome.docs) |-> SectionRecord(outcome.docs[i]) ] ]

\* search_ipc_sections (lines 46-82).  outcome is what similarity_search does
\* if called: it raises, or returns docs.  searched: the search was called;
\* failed: it raised; raised: an exception left the function; value: the
\* list returned.
search_ipc_sections(db, query, top_k, outcome) ==
    IF ~VectorDbTruthy(db)
    THEN [ searched |-> FALSE, failed |-> FALSE, docs |-> << >>,
           raised |-> FALSE, value |-> << >> ]
    ELSE IF strip(query) = ""
    THEN [ searched |-> FALSE, failed |-> FALSE, docs |-> << >>,
           raised |-> FALSE, value |-> << >> ]
    ELSE IF outcome.raises
    THEN [ searched |-> TRUE, failed |-> TRUE, docs |-> << >>,
           raised |-> FALSE, value |-> << >> ]
    ELSE [ searched |-> TRUE, failed |-> FALSE, docs |-> outcome.docs,
           raised |-> FALSE,
           value |-> [ i \in 1..Len(outcome.docs) |-> SectionRecord(outcome.docs[i]) ] ]

-----------------------------------------------------------------------------
(* Specification of the classifier: one call on an input built from at     *)
(* most MaxChunks pieces.                                                  *)

MaxChunks == 3

Chunks == { "\t", "F", "i", "r", "Bail", "pasta", "Under Which section" }

RECURSIVE Inputs(_)
Inputs(n) ==
    IF n = 0 THEN { "" }
    ELSE Inputs(n - 1) \cup { s \o c : s \in Inputs(n - 1), c \in Chunks }

InitClassifier ==
    /\ question \in Inputs(MaxChunks)
    /\ result = [called |-> FALSE, value |-> FALSE]
    /\ IdleDb
    /\ IdleApp
    /\ IdleMail
    /\ IdlePdf
    /\ IdleOffice
    /\ IdleSearch

Classify ==
    /\ ~result.called
    /\ result' = [called |-> TRUE, value |-> is_legal_question(question)]
    /\ UNCHANGED << question, dbVars, appVars, mailVars, pdfVars, officeVars, searchVars >>

NextClassifier == Classify

SpecClassifier == InitClassifier /\ [][NextClassifier]_vars

-----------------------------------------------------------------------------
(* Specification of the history store: any sequence of save_chat_message   *)
(* calls, the clock advancing between them or not, and loads.              *)

MaxHistory == 3
MaxTime == 2

HistoryUsers == { "alice" }
HistoryRoles == { "lawyer" }
ConversationIds == { "X", "Y" }
Texts == { "T", "U" }

InitHistory ==
    /\ history = EmptyHistory
    /\ now = 0
    /\ loaded = NotLoaded
    /\ IdleClassifier
    /\ IdleApp
    /\ IdleMail
    /\ IdlePdf
    /\ IdleOffice
    /\ IdleSearch

SaveChatMessage ==
    /\ Len(history) < MaxHistory
    /\ \E u \in HistoryUsers, r \in HistoryRoles, c \in ConversationIds,
          f \in BOOLEAN, t \in Texts :
          history' = save_chat_message(history, now, u, r, c, f, t)
    /\ UNCHANGED << now, loaded, classVars, appVars, mailVars, pdfVars, officeVars, searchVars >>

\* A second passes.
Tick ==
    /\ now < MaxTime
    /\ now' = now + 1
    /\ UNCHANGED << history, loaded, classVars, appVars, mailVars, pdfVars, officeVars, searchVars >>

LoadMessages ==
    /\ \E c \in ConversationIds :
          \E msgs \in load_messages_by_conversation_id(history, c) :
              loaded' = [ called |-> TRUE, conversation_id |-> c,
                          at |-> Len(history), messages |-> msgs ]
    /\ UNCHANGED << history, now, classVars, appVars, mailVars, pdfVars, officeVars, searchVars >>

NextHistory == SaveChatMessage \/ Tick \/ LoadMessages

SpecHistory == InitHistory /\ [][NextHistory]_vars

-----------------------------------------------------------------------------
(* Specification of the application: one browser session over the shared   *)
(* database.                                                               *)

MaxChats == 1
MaxUuid == 2
MaxClock == 1

RoleParams == { "lawyer", "civilian", "admin" }
Usernames == { "alice" }
Passwords == { "pw" }
Emails == { "" }

\* What one completions.create call may do.
GroqOutcomes ==
    { [ raises |-> TRUE, content |-> None ],
      [ raises |-> FALSE, content |-> "Bail may be granted." ],
      [ raises |-> FALSE, content |-> "" ] }

Init ==
    /\ InitSession
    /\ users = << >>
    /\ uuid_count = 0
    /\ groq_client \in BOOLEAN
    /\ last_chat = NoChat
    /\ history = EmptyHistory
    /\ now = 0
    /\ loaded = NotLoaded
    /\ IdleClassifier
    /\ IdleMail
    /\ IdlePdf
    /\ IdleOffice
    /\ IdleSearch

\* Lines 474-476: the role query parameter becomes the session's role.
SelectRole ==
    /\ ~logged_in
    /\ Falsy(role)
    /\ \E r \in RoleParams : role' = r
    /\ UNCHANGED << logged_in, username, user_email, messages,
                    current_conversation_id, users, uuid_count, groq_client,
                    last_chat, dbVars, classVars, mailVars, pdfVars, officeVars, searchVars >>

\* Lines 482-485: the Register button with a username and a password, drawn
\* from the given sets.
RegisterFrom(names, passwords, emails) ==
    /\ ~logged_in
    /\ ~Falsy(role)
    /\ \E u \in names, p \in passwords, e \in emails :
          /\ users' = register_user(users, u, p, role, e)
          /\ notice' = register_user_message(users, u)
    /\ UNCHANGED << sessionVars, uuid_count, groq_client, last_chat, dbVars,
                    classVars, mailVars, pdfVars, show_reminder_form, reminders,
                    reminder_run, searchVars >>

Register == RegisterFrom(Usernames, Passwords, Emails)

\* Lines 487-496: the Login button with a username and a password, drawn
\* from the given sets.
LoginFrom(names, passwords) ==
    /\ ~logged_in
    /\ ~Falsy(role)
    /\ uuid_count < MaxUuid
    /\ \E u \in names, p \in passwords :
          LET res == login_user(users, u, p)
          IN  IF login_accepted(res, role)
              THEN /\ logged_in' = TRUE
                   /\ username' = u
                   /\ user_email' = (IF Falsy(res[2]) THEN "" ELSE res[2])
                   /\ current_conversation_id' = Uuid(uuid_count + 1)
                   /\ uuid_count' = uuid_count + 1
              ELSE UNCHANGED << logged_in, username, user_email,
                                current_conversation_id, uuid_count >>
    /\ UNCHANGED << role, messages, users, groq_client, last_chat, dbVars,
                    classVars, mailVars, pdfVars, officeVars, searchVars >>

Login == LoginFrom(Usernames, Passwords)

\* Lines 507-510: New Chat.
NewChat ==
    /\ logged_in
    /\ uuid_count < MaxUuid
    /\ messages' = << >>
    /\ current_conversation_id' = Uuid(uuid_count + 1)
    /\ uuid_count' = uuid_count + 1
    /\ UNCHANGED << logged_in, role, username, user_email, users, groq_client,
                    last_chat, dbVars, classVars, mailVars, pdfVars, officeVars, searchVars >>

\* Lines 514-520: a conversation chosen from the history list.
SelectHistory ==
    /\ logged_in
    /\ \E cid \in load_conversation_titles(history, username) :
          /\ current_conversation_id' = cid
          /\ messages' \in load_messages_by_conversation_id(history, cid)
    /\ UNCHANGED << logged_in, role, username, user_email, users, uuid_count,
                    groq_client, last_chat, dbVars, classVars, mailVars, pdfVars, officeVars, searchVars >>

\* Lines 525-527: Logout clears the session, which is then initialised anew.
Logout ==
    /\ logged_in
    /\ logged_in' = FALSE
    /\ role' = None
    /\ username' = None
    /\ user_email' = None
    /\ messages' = << >>
    /\ current_conversation_id' = None
    /\ show_reminder_form' = FALSE
    /\ UNCHANGED << users, uuid_count, groq_client, last_chat, dbVars, classVars,
                    mailVars, pdfVars, notice, reminders, reminder_run,
                    searchVars >>

\* The body shared by the two chat handlers: a question submitted to the
\* chat input, with the context text the handler passes to ask_groq.  The
\* clock may advance while the answer is produced.
ChatHandler(context_text) ==
    /\ last_chat.seq < MaxChats
    /\ Falsy(current_conversation_id) => uuid_count < MaxUuid
    /\ \E user_input \in Questions, outcomes \in [1..Len(GroqModels) -> GroqOutcomes],
          later \in { t \in { now, now + 1 } : t <= MaxClock } :
          LET cid == IF Falsy(current_conversation_id)
                     THEN Uuid(uuid_count + 1)
                     ELSE current_conversation_id
              a == chat_answer(groq_client, user_input, outcomes)
          IN  /\ current_conversation_id' = cid
              /\ uuid_count' = (IF Falsy(current_conversation_id)
                                THEN uuid_count + 1 ELSE uuid_count)
              /\ messages' = messages \o
                    << [ role |-> "user", content |-> user_input ],
                       [ role |-> "assistant", content |-> a.reply ] >>
              /\ history' = save_chat_message(
                                save_chat_message(history, now, username, role,
                                                  cid, TRUE, user_input),
                                later, username, role, cid, FALSE, a.reply)
              /\ now' = later
              /\ last_chat' = [ seq |-> last_chat.seq + 1, question |-> user_input,
                                context |-> context_text,
                                accepted |-> a.accepted, calls |-> a.calls,
                                answer |-> a.answer, reply |-> a.reply ]
    /\ UNCHANGED << logged_in, role, username, user_email, users, groq_client,
                    loaded, classVars, mailVars, pdfVars, officeVars, searchVars >>

\* Lines 566-591: the chat input of the lawyer dashboard.
LawyerChat ==
    /\ logged_in
    /\ role = "lawyer"
    /\ ChatHandler("Legal context")

\* Lines 638-662: the chat input of the civilian dashboard.
CivilianChat ==
    /\ logged_in
    /\ role # "lawyer"
    /\ role = "civilian"
    /\ ChatHandler("Civilian legal context")

\* A second passes between two interactions.
ClockTick ==
    /\ now < MaxClock
    /\ now' = now + 1
    /\ UNCHANGED << history, loaded, appVars, classVars, mailVars, pdfVars, officeVars, searchVars >>

Next ==
    \/ SelectRole
    \/ Register
    \/ Login
    \/ NewChat
    \/ SelectHistory
    \/ Logout
    \/ LawyerChat
    \/ CivilianChat
    \/ ClockTick

Spec == Init /\ [][Next]_vars

-----------------------------------------------------------------------------
(* Specification of the reminder e-mails: calls of send_reminder_emails    *)
(* under each configuration of the SMTP credentials.                       *)

MaxReminders == 1

EnvEmails == { None, "", "bot@firm.in" }
EnvPasswords == { None, "", "app-password" }
\* SMTP_PORT unset, or set to a port number.
EnvPorts == { None, "2525" }
CaseNumbers == { "CR-101", "CR-202" }
ClientEmails == { "client@example.com" }
LawyerEmails == { "lawyer@example.com" }
Deadlines == { Date(2026, 11, 5), Date(2027, 1, 20) }
ReminderMessages == { "", "Bring the originals" }

\* An entry left in sent_emails.txt by an earlier run.
EarlierEntry == save_email_details("old@example.com", "Earlier", "Earlier body")

InitMail ==
    /\ sender_email \in EnvEmails
    /\ sender_password \in EnvPasswords
    /\ smtp_port_env \in EnvPorts
    /\ sent_emails \in { << >>, << EarlierEntry >> }
    /\ mail = NoMail
    /\ IdleClassifier
    /\ IdleDb
    /\ IdleApp
    /\ IdlePdf
    /\ IdleOffice
    /\ IdleSearch

SendReminderEmails ==
    /\ mail.calls < MaxReminders
    /\ \E cn \in CaseNumbers, ce \in ClientEmails, le \in LawyerEmails,
          dd \in Deadlines, rm \in ReminderMessages,
          raise1 \in 0..Len(SmtpSteps), raise2 \in 0..Len(SmtpSteps) :
          LET r == send_reminder_emails(MailEnv, cn, ce, le, dd, rm, raise1, raise2)
          IN  /\ sent_emails' = sent_emails \o r.logged
              /\ mail' = [ calls |-> mail.calls + 1, value |-> r.value,
                           log_before |-> Len(sent_emails), case_number |-> cn,
                           client_email |-> ce, lawyer_email |-> le,
                           sends |-> r.sends ]
    /\ UNCHANGED << sender_email, sender_password, smtp_port_env, classVars,
                    dbVars, appVars, pdfVars, officeVars, searchVars >>

NextMail == SendReminderEmails

SpecMail == InitMail /\ [][NextMail]_vars

-----------------------------------------------------------------------------
(* Specification of the office: role selection, registration, login and    *)
(* the reminder form of the lawyer dashboard, in one browser session over   *)
(* the shared database.                                                    *)

MaxSubmits == 1

OfficeUsernames == { "alice", "bob" }
OfficePasswords == { "pw", "other" }
OfficeEmails == { "office@firm.in" }

\* What the text inputs of the form may hold; the lawyer's address starts
\* as the session's user_email.
FormCaseNumbers == { "", "CR-101" }
FormClientEmails == { "", "client@example.com" }
FormLawyerEmails == { "", "lawyer@example.com", user_email }
FormDeadlines == { Date(2026, 11, 5) }
FormMessages == { "" }
\* The SMTP step that raises in a submission: none, or login.
FormRaises == { 0, 3 }

InitOffice ==
    /\ InitSession
    /\ users = << >>
    /\ uuid_count = 0
    /\ groq_client = FALSE
    /\ last_chat = NoChat
    /\ notice = ""
    /\ reminders = EmptyReminders
    /\ reminder_run = NoReminderRun
    /\ show_reminder_form = FALSE
    /\ sender_email \in { None, "bot@firm.in" }
    /\ sender_password = "app-password"
    /\ smtp_port_env = None
    /\ sent_emails = << >>
    /\ mail = NoMail
    /\ IdleClassifier
    /\ IdleDb
    /\ IdlePdf
    /\ IdleSearch

OfficeRegister == RegisterFrom(OfficeUsernames, OfficePasswords, OfficeEmails)

OfficeLogin == LoginFrom(OfficeUsernames, OfficePasswords)

\* Lines 531-537: the Set Reminder button of the lawyer dashboard.
SetReminder ==
    /\ logged_in
    /\ role = "lawyer"
    /\ show_reminder_form' = TRUE
    /\ UNCHANGED << notice, reminders, reminder_run, appVars, dbVars, classVars,
                    mailVars, pdfVars, searchVars >>

\* Lines 594-623: the form shown in the lawyer dashboard, submitted.
SubmitReminder ==
    /\ logged_in
    /\ role = "lawyer"
    /\ show_reminder_form
    /\ reminder_run.seq < MaxSubmits
    /\ \E cn \in FormCaseNumbers, ce \in FormClientEmails, le \in FormLawyerEmails,
          dd \in FormDeadlines, rm \in FormMessages, db_error \in BOOLEAN,
          raise1 \in FormRaises, raise2 \in FormRaises :
          LET r == reminder_form_submit(reminders, now, MailEnv, cn, ce, le, dd,
                                        rm, db_error, raise1, raise2)
          IN  /\ reminders' = r.reminders
              /\ sent_emails' = sent_emails \o r.logged
              /\ show_reminder_form' = (IF r.close THEN FALSE ELSE show_reminder_form)
              /\ reminder_run' = [ seq |-> reminder_run.seq + 1, case_number |-> cn,
                                   client_email |-> ce, lawyer_email |-> le,
                                   db_error |-> db_error, outcome |-> r.outcome,
                                   events |-> r.events ]
    /\ UNCHANGED << notice, appVars, dbVars, classVars, sender_email,
                    sender_password, smtp_port_env, mail, pdfVars, searchVars >>

\* Lines 624-625: the Cancel button of the form.
CancelReminder ==
    /\ logged_in
    /\ role = "lawyer"
    /\ show_reminder_form
    /\ show_reminder_form' = FALSE
    /\ UNCHANGED << notice, reminders, reminder_run, appVars, dbVars, classVars,
                    mailVars, pdfVars, searchVars >>

NextOffice ==
    \/ SelectRole
    \/ OfficeRegister
    \/ OfficeLogin
    \/ Logout
    \/ SetReminder
    \/ SubmitReminder
    \/ CancelReminder

SpecOffice == InitOffice /\ [][NextOffice]_vars

-----------------------------------------------------------------------------
(* Specification of the PDF text extractor: calls of extract_text_from_pdf *)
(* on documents of at most MaxPages pages.                                 *)

MaxPages == 2
MaxExtracts == 1

OcrKeys == { None, "", "K85" }

\* What page.extract_text() gives for a page.
PageTexts == { None, "", " ", "SUMMONS" }

RECURSIVE Documents(_)
Documents(n) ==
    IF n = 0 THEN { << >> }
    ELSE Documents(n - 1) \cup
         { Append(d, t) : d \in { x \in Documents(n - 1) : Len(x) = n - 1 },
                          t \in PageTexts }

\* What the OCR request does.
OcrOutcomes ==
    { [ raises |-> TRUE, parsed |-> << >> ],
      [ raises |-> FALSE, parsed |-> << >> ],
      [ raises |-> FALSE, parsed |-> << "SUMMONS" >> ] }

InitPdf ==
    /\ ocr_api_key \in OcrKeys
    /\ extracted = NoExtract
    /\ IdleClassifier
    /\ IdleDb
    /\ IdleApp
    /\ IdleMail
    /\ IdleOffice
    /\ IdleSearch

ExtractTextFromPdf ==
    /\ extracted.calls < MaxExtracts
    /\ \E pages \in Documents(MaxPages), ocr \in OcrOutcomes :
          \E failure \in { -1 } \cup 0..Len(pages) :
              LET r == extract_text_from_pdf(ocr_api_key, pages, failure, ocr)
              IN  extracted' = [ calls |-> extracted.calls + 1, pages |-> pages,
                                 failure |-> failure, text |-> r.text,
                                 ocr_calls |-> r.ocr_calls, error |-> r.error ]
    /\ UNCHANGED << ocr_api_key, classVars, dbVars, appVars, mailVars, officeVars,
                    searchVars >>

NextPdf == ExtractTextFromPdf

SpecPdf == InitPdf /\ [][NextPdf]_vars

-----------------------------------------------------------------------------
(* Specification of the search tool: calls of search_ipc_sections on a     *)
(* store that failed to load or holds at most MaxDocs documents.           *)

MaxDocs == 2
MaxSearches == 2

\* Line 47: top_k=3 unless the caller gives another.
DefaultTopK == 3
TopKs == { 1, DefaultTopK }

Queries == { "", " \t", "theft", "Theft and property disputes" }

\* Documents of the collection: with all four metadata keys, with one of
\* them and a key the tool does not read, and with none.
StoredDocs ==
    { [ metadata |-> [ section |-> "378", section_title |-> "Theft",
                       chapter |-> "17",
                       chapter_title |-> "Of Offences Against Property" ],
        page_content |-> "Whoever, intending to take dishonestly" ],
      [ metadata |-> [ section |-> "302", source |-> "ipc.json" ],
        page_content |-> "Whoever commits murder" ],
      [ metadata |-> [ source |-> "ipc.json" ], page_content |-> "" ] }

RECURSIVE DocLists(_)
DocLists(n) ==
    IF n = 0 THEN { << >> }
    ELSE DocLists(n - 1)
         \cup { Append(l, d) : l \in { x \in DocLists(n - 1) : Len(x) = n - 1 },
                               d \in StoredDocs }

Min(a, b) == IF a < b THEN a ELSE b

\* What similarity_search(query, k=top_k) may do on a store of count
\* documents: raise, or return at most k of them.
SearchOutcomes(db, top_k) ==
    { [ raises |-> TRUE, docs |-> << >> ] }
    \cup { [ raises |-> FALSE, docs |-> l ] :
              l \in DocLists(Min(top_k, db.count)) }

InitSearch ==
    /\ vector_db \in { VectorDbFailed } \cup { VectorDb(n) : n \in 0..MaxDocs }
    /\ search = NoSearch
    /\ IdleClassifier
    /\ IdleDb
    /\ IdleApp
    /\ IdleMail
    /\ IdlePdf
    /\ IdleOffice

SearchIpcSections ==
    /\ search.calls < MaxSearches
    /\ \E query \in Queries, top_k \in TopKs :
          \E outcome \in SearchOutcomes(vector_db, top_k) :
             LET r == search_ipc_sections(vector_db, query, top_k, outcome)
             IN  search' = [ calls |-> search.calls + 1, query |-> query,
                             top_k |-> top_k, searched |-> r.searched,
                             failed |-> r.failed, docs |-> r.docs,
                             raised |-> r.raised, value |-> r.value ]
    /\ UNCHANGED << vector_db, classVars, dbVars, appVars, mailVars, pdfVars,
                    officeVars >>

NextSearch == SearchIpcSections

SpecSearch == InitSearch /\ [][NextSearch]_vars

-----------------------------------------------------------------------------
(* Properties of the classifier.                                           *)

\* Number of non-whitespace characters of s.
NonWsCount(s) == Cardinality({ i \in 1..Len(s) : CharAt(s, i) \notin Whitespace })

\* C1: a question with fewer than 3 non-whitespace characters is rejected,
\* whatever whitespace lies between or around those characters.
C1_ShortRejected ==
    (result.called /\ NonWsCount(question) < 3) => ~result.value

\* C1 witness: two characters separated by whitespace pass the length check
\* of the stripped text and are still rejected.
C1_Witness ==
    /\ result.called
    /\ NonWsCount(question) = 2
    /\ Len(strip(question)) >= MinQuestionLen
    /\ ~result.value

\* C2: a question whose lowercased text contains an entry of legal_keywords
\* at any position is accepted.
C2_KeywordAccepted ==
    result.called =>
        \A i \in 1..Len(legal_keywords) :
            Contains(lower(question), legal_keywords[i]) => result.value

\* C2 witness: a keyword in mixed case, inside other text and whitespace.
C2_Witness ==
    /\ result.called
    /\ Contains(lower(question), "bail")
    /\ ~Contains(question, "bail")
    /\ ~startswith(strip(lower(question)), "bail")
    /\ question # strip(question)
    /\ result.value

\* C3: a question whose trimmed, lowercased text starts with an entry of
\* legal_question_starts is accepted, also with no keyword and no pattern.
C3_OpenerAccepted ==
    (result.called /\ HasStart(strip(lower(question)))) => result.value

\* C3 witness: accepted on the opener alone, after leading whitespace.
C3_Witness ==
    /\ result.called
    /\ HasStart(strip(lower(question)))
    /\ ~HasKeyword(strip(lower(question)))
    /\ ~HasPattern(strip(lower(question)))
    /\ question # strip(question)
    /\ result.value

\* C4: a question with no keyword, no pattern and no opener at its start is
\* rejected.
C4_NoMatchRejected ==
    ( /\ result.called
      /\ ~HasKeyword(strip(lower(question)))
      /\ ~HasPattern(strip(lower(question)))
      /\ ~HasStart(strip(lower(question))) ) => ~result.value

\* C4 witness: an opener phrase that is not at the start, no keyword.
C4_Witness ==
    /\ result.called
    /\ Contains(lower(question), "under which section")
    /\ ~HasStart(strip(lower(question)))
    /\ ~HasKeyword(strip(lower(question)))
    /\ ~HasPattern(strip(lower(question)))
    /\ ~result.value

-----------------------------------------------------------------------------
(* Properties of the history store.                                        *)

\* The rows of conversation c among the first n rows, in insertion order.
RECURSIVE WrittenFor(_, _, _)
WrittenFor(h, n, c) ==
    IF n = 0 THEN << >>
    ELSE IF h[n].conversation_id = c
         THEN Append(WrittenFor(h, n - 1, c),
                     [ role |-> IF h[n].is_user_message = 1 THEN "user" ELSE "assistant",
                       content |-> h[n].message ])
         ELSE WrittenFor(h, n - 1, c)

\* C5: a load of conversation X returns exactly the entries written for X,
\* with their roles and texts, in the order written, also when entries of X
\* carry the same timestamp.
C5_RoundTripInOrder ==
    loaded.called =>
        loaded.messages = WrittenFor(history, loaded.at, loaded.conversation_id)

-----------------------------------------------------------------------------
(* Properties of the chat handlers.                                        *)

\* The step is a run of a chat handler.
ChatStep == last_chat'.seq # last_chat.seq

\* The last row of the history table after the step.
LastRow == history'[Len(history')]

\* C6: for a question is_legal_question rejects, the handler of either role
\* makes no ask_groq call, replies with the text of get_non_legal_response,
\* appends it to the transcript after the question and stores it with
\* is_user_message false under the current conversation id.
C6_RejectedNeverAsked ==
    [][ (ChatStep /\ ~Verdicts[last_chat'.question]) =>
            /\ last_chat'.calls = << >>
            /\ last_chat'.reply = get_non_legal_response
            /\ messages' = messages \o
                  << [ role |-> "user", content |-> last_chat'.question ],
                     [ role |-> "assistant", content |-> get_non_legal_response ] >>
            /\ Len(history') = Len(history) + 2
            /\ LastRow.message = get_non_legal_response
            /\ LastRow.is_user_message = 0
            /\ LastRow.conversation_id = current_conversation_id'
            /\ LastRow.username = username /\ LastRow.role = role
      ]_vars

\* C6 witness: a civilian's rejected question, with a client configured.
C6_Witness ==
    /\ last_chat.seq > 0
    /\ ~Verdicts[last_chat.question]
    /\ groq_client
    /\ role = "civilian"
    /\ last_chat.calls = << >>
    /\ messages # << >>
    /\ messages[Len(messages)].content = get_non_legal_response
    /\ history[Len(history)].message = get_non_legal_response
    /\ history[Len(history)].is_user_message = 0
    /\ history[Len(history)].conversation_id = current_conversation_id

\* C7: for an accepted question, ask_groq makes no call and returns None with
\* no client; with a client it calls the models in list order, a later one
\* only after every earlier call raised, and returns the content of the
\* first call that returned, or None when every call raised; the handler
\* shows and stores the fallback string for an absent or empty answer and
\* the answer otherwise.
C7_OrderedFallback ==
    [][ (ChatStep /\ Verdicts[last_chat'.question]) =>
            LET c == last_chat'.calls
                answer == last_chat'.answer
                shown == IF answer = None \/ answer = ""
                         THEN "Sorry, I couldn't process this legal question right now."
                         ELSE answer
            IN  /\ ~groq_client => (c = << >> /\ answer = None)
                /\ groq_client =>
                      /\ Len(c) >= 1 /\ Len(c) <= Len(GroqModels)
                      /\ \A i \in 1..Len(c) : c[i].model = GroqModels[i]
                      /\ \A i \in 1..(Len(c) - 1) : c[i].raised
                      /\ c[Len(c)].raised =>
                            (Len(c) = Len(GroqModels) /\ answer = None)
                      /\ ~c[Len(c)].raised => answer = c[Len(c)].content
                /\ last_chat'.reply = shown
                /\ messages'[Len(messages')] = [ role |-> "assistant", content |-> shown ]
                /\ LastRow.message = shown /\ LastRow.is_user_message = 0
      ]_vars

\* C7 witness: the first model raised, the second returned an answer, and
\* that answer is the one stored.
C7_Witness ==
    /\ last_chat.seq > 0
    /\ last_chat.accepted
    /\ Len(last_chat.calls) = 2
    /\ last_chat.calls[1].raised
    /\ ~last_chat.calls[2].raised
    /\ last_chat.answer = "Bail may be granted."
    /\ history[Len(history)].message = "Bail may be granted."

-----------------------------------------------------------------------------
(* Properties of the reminder e-mails.                                     *)

CredentialsMissing ==
    \/ sender_email = None \/ sender_email = ""
    \/ sender_password = None \/ sender_password = ""

\* The entries the last call appended to the log.
Appended == SubSeq(sent_emails, mail.log_before + 1, Len(sent_emails))

\* C8: with the sender address or the password missing, send_reminder_emails
\* returns True and appends exactly two entries, the client-facing message
\* first and the lawyer-facing one second, and enters no SMTP step.
C8_SimulatedSend ==
    (mail.calls > 0 /\ CredentialsMissing) =>
        /\ mail.value = TRUE
        /\ Len(Appended) = 2
        /\ Appended[1].to = mail.client_email
        /\ startswith(Appended[1].body, "Dear Client,")
        /\ Appended[2].to = mail.lawyer_email
        /\ startswith(Appended[2].body, "Dear Lawyer,")
        /\ \A i \in 1..Len(mail.sends) : mail.sends[i].smtp = << >>

\* C8 witness: a call with the address set and the password empty, after an
\* earlier entry in the log.
C8_Witness ==
    /\ mail.calls > 0
    /\ sender_email = "bot@firm.in"
    /\ sender_password = ""
    /\ mail.log_before = 1
    /\ mail.value
    /\ Len(sent_emails) = 3

\* C9: with credentials, each send_email returns True and logs its message
\* exactly once whether the submission completes or raises at any step, so
\* send_reminder_emails returns True, and the lawyer's submission is still
\* made after the client's raised.
C9_LenientSend ==
    (mail.calls > 0 /\ ~CredentialsMissing) =>
        /\ Len(mail.sends) = 2
        /\ \A i \in 1..2 : mail.sends[i].ok /\ mail.sends[i].logged = 1
        /\ mail.sends[1].to = mail.client_email
        /\ mail.sends[2].to = mail.lawyer_email
        /\ mail.sends[2].smtp # << >>
        /\ mail.value = TRUE
        /\ Len(Appended) = 2

\* C9 witness: the client's submission raised at login, the lawyer's at
\* sendmail, and the call still returned True.
C9_Witness ==
    /\ mail.calls > 0
    /\ ~CredentialsMissing
    /\ mail.sends[1].raised_at = 3
    /\ mail.sends[2].raised_at = 4
    /\ mail.sends[2].smtp = << "SMTP", "starttls", "login", "sendmail" >>
    /\ mail.sends[2].port = 2525
    /\ mail.value
    /\ Len(Appended) = 2

-----------------------------------------------------------------------------
(* Properties of the PDF text extractor.                                   *)

\* C10: with no OCR credential and no text on any page, extract_text_from_pdf
\* returns the empty string, makes no OCR request, and reports no error when
\* nothing raised.
C10_NoKeyNoText ==
    ( /\ extracted.calls > 0
      /\ (ocr_api_key = None \/ ocr_api_key = "")
      /\ \A i \in 1..Len(extracted.pages) :
            extracted.pages[i] = None \/ extracted.pages[i] = "" ) =>
        /\ extracted.text = ""
        /\ extracted.ocr_calls = 0
        /\ extracted.failure = 0 => ~extracted.error

\* C10 witness: a two-page scanned document, no credential, nothing raised.
C10_Witness ==
    /\ extracted.calls > 0
    /\ ocr_api_key = None
    /\ extracted.pages = << None, "" >>
    /\ extracted.failure = 0
    /\ extracted.text = ""
    /\ extracted.ocr_calls = 0
    /\ ~extracted.error

-----------------------------------------------------------------------------
(* Properties of the search tool.                                          *)

SectionFields == { "section", "section_title", "chapter", "chapter_title", "content" }

\* C11: a call of search_ipc_sections never raises to its caller; it returns
\* the empty list when the store failed to load, when the query is empty or
\* only whitespace, and when the similarity search raises; otherwise it
\* returns one record per document the search returned, in the search's
\* order, each with exactly the fields section, section_title, chapter,
\* chapter_title and content, taken from the document.
C11_SearchNeverRaises ==
    search.calls > 0 =>
        /\ ~search.raised
        /\ vector_db = VectorDbFailed => search.value = << >> /\ ~search.searched
        /\ NonWsCount(search.query) = 0 => search.value = << >> /\ ~search.searched
        /\ search.failed => search.value = << >>
        /\ (search.searched /\ ~search.failed) =>
              /\ Len(search.value) = Len(search.docs)
              /\ \A i \in 1..Len(search.docs) :
                    /\ DOMAIN search.value[i] = SectionFields
                    /\ search.value[i].content = search.docs[i].page_content
                    /\ \A k \in SectionFields \ { "content" } :
                          search.value[i][k] =
                             (IF k \in DOMAIN search.docs[i].metadata
                              THEN search.docs[i].metadata[k] ELSE None)

\* C11 witness: on a loaded store holding documents, the similarity search
\* was called for a query and raised, and the call returned the empty list.
C11_Witness ==
    /\ search.calls > 0
    /\ vector_db # VectorDbFailed
    /\ search.query = "theft"
    /\ search.searched
    /\ search.failed
    /\ search.value = << >>

-----------------------------------------------------------------------------
(* Properties of the users table, the login and the reminder form.         *)

\* Lines 469-470: the two roles the selection page offers.
OfferedRoles == { "lawyer", "civilian" }

\* C12: every stored user has the role lawyer or the role civilian.
C12_RolesFixed ==
    \A i \in 1..Len(users) : users[i].role \in OfferedRoles

\* The rows of the users table with this username.
StoredAs(uname) == { i \in 1..Len(users) : users[i].username = uname }

\* C13: a logged-in session belongs to a stored user whose stored role is
\* the role selected in the session, and a step that adds a reminder is
\* taken in a session logged in as a stored user whose stored role is lawyer.
C13_LawyersOnly ==
    [][ /\ logged_in' =>
              \E i \in 1..Len(users') :
                 users'[i].username = username' /\ users'[i].role = role'
        /\ Len(reminders') > Len(reminders) =>
              /\ logged_in
              /\ role = "lawyer"
              /\ StoredAs(username) # { }
              /\ \A i \in StoredAs(username) : users[i].role = "lawyer" ]_vars

\* C13 witness: a reminder was stored from a lawyer's session while a user
\* stored with another role exists, whom the session's user is not.
C13_Witness ==
    /\ Len(reminders) > 0
    /\ logged_in
    /\ role = "lawyer"
    /\ \E i \in 1..Len(users) :
          users[i].role = "civilian" /\ users[i].username # username

\* C14: a step leaves every stored user as it was and the usernames unique;
\* the table changes only by one new row of a username not stored before,
\* with the success message, so a registration of a stored username, which
\* gets the message that the username exists, changes nothing.
C14_UsersAppendOnly ==
    [][ /\ Len(users') >= Len(users)
        /\ \A i \in 1..Len(users) : users'[i] = users[i]
        /\ \A i, j \in 1..Len(users') :
              users'[i].username = users'[j].username => i = j
        /\ users' # users =>
              /\ Len(users') = Len(users) + 1
              /\ notice' = RegistrationSuccessful
        /\ (notice' = UsernameExists /\ notice # UsernameExists) =>
              users' = users ]_vars

\* C14 witness: the username of a stored user was registered again under
\* another role, the message that the username exists was shown, and the
\* stored user is the only one.
C14_Witness ==
    /\ notice = UsernameExists
    /\ ~logged_in
    /\ Len(users) = 1
    /\ role = "lawyer"
    /\ users[1].role = "civilian"

\* A submission of the reminder form.
ReminderStep == reminder_run'.seq # reminder_run.seq

\* The submission lacks a required text (the date input always holds a date).
FieldMissing(run) ==
    run.case_number = "" \/ run.client_email = "" \/ run.lawyer_email = ""

\* C15: a submission with a required field missing shows the warning only:
\* no reminder is inserted and nothing is sent or logged; in a complete
\* submission the insert comes before every send, and when the insert fails
\* nothing is sent or logged.
C15_InsertBeforeSend ==
    [][ ReminderStep =>
          /\ FieldMissing(reminder_run') =>
                /\ reminder_run'.outcome = "warning"
                /\ reminder_run'.events = << >>
                /\ reminders' = reminders
                /\ sent_emails' = sent_emails
          /\ (~FieldMissing(reminder_run') /\ reminder_run'.db_error) =>
                /\ reminder_run'.events = << "insert failed" >>
                /\ reminders' = reminders
                /\ sent_emails' = sent_emails
          /\ (~FieldMissing(reminder_run') /\ ~reminder_run'.db_error) =>
                /\ Len(reminders') = Len(reminders) + 1
                /\ reminder_run'.events[1] = "insert"
                /\ \A i \in 2..Len(reminder_run'.events) :
                      reminder_run'.events[i] = "send"
                /\ Len(sent_emails') = Len(sent_emails) + Len(reminder_run'.events) - 1
      ]_vars

\* C15 witness: a complete submission whose insert failed left the table
\* and the log of sent e-mails empty.
C15_Witness ==
    /\ reminder_run.seq > 0
    /\ ~FieldMissing(reminder_run)
    /\ reminder_run.db_error
    /\ reminders = EmptyReminders
    /\ sent_emails = << >>

-----------------------------------------------------------------------------
(* Properties of the transcript.                                           *)

\* C16: whenever the user is logged in, the current conversation id is set
\* and the session's messages are the history of that conversation as
\* load_messages_by_conversation_id returns it, whichever order the query
\* gives to rows of equal timestamp.
C16_TranscriptIsHistory ==
    logged_in =>
        /\ ~Falsy(current_conversation_id)
        /\ \A loaded_messages \in
                 load_messages_by_conversation_id(history, current_conversation_id) :
              messages = loaded_messages

====
